---- MODULE Spec2Model ----
(***************************************************************************)
(* A model of src/src/billion-challenge.ts: the summation strategies, the  *)
(* partitioning of parallelWorkers, runBenchmark, main's suite loop and    *)
(* formatResults.                                                          *)
(*                                                                         *)
(* JavaScript Numbers are IEEE-754 doubles.  Integer values below 2^31 are *)
(* modelled by TLA+ integers (every operation on them is exact in a        *)
(* double).  Products that can pass 2^53 are modelled by "wide" values     *)
(* <<hi, lo>> standing for hi * 2^30 + lo, rounded to 53 significant bits  *)
(* (round to nearest, ties to even) where the code computes in doubles.    *)
(***************************************************************************)
EXTENDS Integers, Sequences, FiniteSets

VARIABLES
  cpus,        \* os.cpus().length
  \* a strategy called directly
  fn,          \* the strategy last called ("none" before any call)
  arg,         \* its argument n
  ret,         \* the value it returned
  dispatched,  \* the {start, end} ranges parallelWorkers handed to createWorker
  \* main and runBenchmark
  isDevelopment, \* args.includes("--dev")
  isFullTest,  \* args.includes("--full")
  benchmarks,  \* the list of [name, kind] the suite loop runs
  bi,          \* main's loop index i, from 1
  pc,          \* where main is: "main", "loop", "await", "returned", "pause", "format", "done"
  phase,       \* runBenchmark's loop: "warmup" or "measure"
  wi,          \* the warmup loop's i
  run,         \* the measurement loop's run
  times,       \* runBenchmark's times
  finalResult, \* runBenchmark's finalResult
  returned,    \* the BenchmarkResult runBenchmark returned, until main pushes it
  results,     \* main's results
  outcome,     \* the promise of the invocation runBenchmark awaits
  workers,     \* the workers of the parallelWorkers invocation awaited
  orphans,     \* workers of settled invocations that are still computing
  \* history
  calls,       \* the invocations of the current runBenchmark call, in order
  active,      \* the strategy invocations begun and not yet settled
  cooled,      \* the cooldown pauses main has made
  workerFailed, \* a worker of the current runBenchmark call reported a failure
  threw,       \* the indices of the benchmarks an invocation of which threw or rejected
  \* formatResults
  ranking,     \* the rows of the performance ranking, in the order printed
  failedList,  \* the names under FAILED BENCHMARKS
  verification, \* "pass", "fail", or "none" when there is nothing to display
  \* one parallelWorkers invocation, event by event
  pool,        \* the workers createWorker made: thread, promise, timer
  completion,  \* history: the workers in the order their messages were handled
  firstFailure, \* history: the first failure event handled, its worker and text
  reduceRan    \* results.reduce(...) of parallelWorkers has run

callVars == <<fn, arg, ret, dispatched>>
suiteVars == <<isDevelopment, isFullTest, benchmarks, bi, pc, phase, wi, run, times,
               finalResult, returned, results, outcome, workers, orphans, calls,
               active, cooled, workerFailed, threw>>
formatVars == <<ranking, failedList, verification>>
poolVars == <<pool, completion, firstFailure, reduceRan>>
vars == <<cpus, callVars, suiteVars, formatVars, poolVars>>

\* ------------------------------------------------------------------ bounds

\* Largest input on which the loop strategies are run.
MaxN == 40
\* Largest number of CPUs os.cpus().length is drawn from.
MaxCpus == 4
\* Longest list of benchmarks the suite loop is run on.
MaxBenchmarks == 2
\* Largest number of CPUs the suite is run on.
MaxSuiteCpus == 2
\* Longest list of results formatResults is applied to.
MaxResults == 3

\* ------------------------------------------------------- program constants

unrollFactor == 16
vectorSize == 8
configBatchSize == 10000000
cacheLineSize == 64
warmupRuns == 3
testRuns == 5
maxNumber == 1000000000
defaultSize == 100000000
warmupCap == 1000000

\* ------------------------------------------------------------- arithmetic

Min(a, b) == IF a < b THEN a ELSE b

\* Math.ceil(a / b) for integers a >= 0, b > 0.
CeilDiv(a, b) == (a + b - 1) \div b

Base == 2^30
HalfBase == 2^15

\* The wide value of an integer 0 <= x < 2^31.
Wide(x) == <<x \div Base, x % Base>>

\* The exact product of integers a, b with 0 <= a, b < 2^30, as a wide value.
WideMul(a, b) ==
  LET a1 == a \div HalfBase
      a0 == a % HalfBase
      b1 == b \div HalfBase
      b0 == b % HalfBase
      mid == a1 * b0 + a0 * b1
      low == a0 * b0 + (mid % HalfBase) * HalfBase
  IN  <<a1 * b1 + mid \div HalfBase + low \div Base, low % Base>>

\* The number of bits of x >= 0 (0 for x = 0).
RECURSIVE BitLen(_)
BitLen(x) == IF x = 0 THEN 0 ELSE 1 + BitLen(x \div 2)

\* The significand of a double holds 53 bits.
\* w rounded to the nearest double, ties to even.
RoundToDouble(w) ==
  LET len == IF w[1] = 0 THEN BitLen(w[2]) ELSE 30 + BitLen(w[1])
      k == IF len > 53 THEN len - 53 ELSE 0
      q == w[2] \div 2^k
      r == w[2] % 2^k
      up == k > 0 /\ (2 * r > 2^k \/ (2 * r = 2^k /\ q % 2 = 1))
      lo == (q + (IF up THEN 1 ELSE 0)) * 2^k
  IN  IF lo = Base THEN <<w[1] + 1, 0>> ELSE <<w[1], lo>>

\* Half of an even wide value (x / 2 on a double and x / 2n on a bigint agree
\* on even values; every value halved here is n * (n - 1) or its rounding).
WideHalf(w) == <<w[1] \div 2, (w[2] + (w[1] % 2) * Base) \div 2>>

\* a * b on doubles for integers 0 <= a < 2^30 and -1 <= b < 2^30, b = -1 only
\* with a = 0 (0 * -1 is -0, which equals 0).
NumberMul(a, b) == IF a = 0 \/ b <= 0 THEN <<0, 0>> ELSE RoundToDouble(WideMul(a, b))

\* a * b on bigints, same arguments.
BigIntMul(a, b) == IF a = 0 \/ b <= 0 THEN <<0, 0>> ELSE WideMul(a, b)

Number(w) == [t |-> "number", w |-> w]
BigInt(w) == [t |-> "bigint", w |-> w]

\* a + b and a - b (a >= b) on wide values.
WideAdd(a, b) == <<a[1] + b[1] + ((a[2] + b[2]) \div Base), (a[2] + b[2]) % Base>>
WideSub(a, b) ==
  IF a[2] >= b[2] THEN <<a[1] - b[1], a[2] - b[2]>>
  ELSE <<a[1] - b[1] - 1, a[2] + (Base - b[2])>>

\* A wide value divided by 10: <<the quotient, the remainder>>.
WideDivMod10(w) ==
  LET r2 == w[1] % 10
      u == r2 * HalfBase + (w[2] \div HalfBase)
      r1 == u % 10
      v == r1 * HalfBase + (w[2] % HalfBase)
  IN  << <<w[1] \div 10, (u \div 10) * HalfBase + (v \div 10)>>, v % 10 >>
\* ------------------------------------------------------------- strategies
\* Every sum below stays under 2^31 on the inputs the loops are run on
\* (n <= MaxN), where += on doubles is exact.

mathFormula(n) == Number(WideHalf(NumberMul(n, n - 1)))

mathFormulaBigInt(n) == BigInt(WideHalf(BigIntMul(n, n - 1)))

RECURSIVE SumLoop(_, _, _)
\* for (i = from; i < to; i++) sum += i, from the given sum.
SumLoop(i, to, sum) == IF i < to THEN SumLoop(i + 1, to, sum + i) ELSE sum

optimizedLoop(n) == SumLoop(0, n, 0)

RECURSIVE UnrolledLoop(_, _, _)
\* while (i < limit) { sum += i + (i + 1) + ... + (i + 15); i += unrollFactor }
UnrolledLoop(i, limit, sum) ==
  IF i < limit
  THEN UnrolledLoop(i + unrollFactor, limit,
         sum + (i + (i + 1) + (i + 2) + (i + 3) + (i + 4) + (i + 5) + (i + 6)
                + (i + 7) + (i + 8) + (i + 9) + (i + 10) + (i + 11) + (i + 12)
                + (i + 13) + (i + 14) + (i + 15)))
  ELSE sum

assemblyStyleLoop(n) ==
  LET limit == (n \div unrollFactor) * unrollFactor
  IN  SumLoop(limit, n, UnrolledLoop(0, limit, 0))

RECURSIVE BatchLoop(_, _, _, _, _)
\* for (batch < batches) { start = batch * batchSize; end = min(start + batchSize, n);
\*   for (i < end - start) sum += start + i }
BatchLoop(batch, batches, batchSize, n, sum) ==
  IF batch < batches
  THEN LET start == batch * batchSize
           end == Min(start + batchSize, n)
       IN  BatchLoop(batch + 1, batches, batchSize, n, SumLoop(start, end, sum))
  ELSE sum

typedArrayOptimal(n) ==
  LET batchSize == Min(configBatchSize, n)
      \* Math.ceil(0 / 0) is NaN and batch < NaN is false: no batch runs.
      batches == IF batchSize = 0 THEN 0 ELSE CeilDiv(n, batchSize)
  IN  BatchLoop(0, batches, batchSize, n, 0)

RECURSIVE VectorLoop(_, _, _)
\* while (i < limit) { sum += base * 8 + (0 + 1 + ... + 7); i += vectorSize }
VectorLoop(i, limit, sum) ==
  IF i < limit
  THEN VectorLoop(i + vectorSize, limit, sum + (i * 8 + (0 + 1 + 2 + 3 + 4 + 5 + 6 + 7)))
  ELSE sum

simdStyle(n) ==
  LET limit == (n \div vectorSize) * vectorSize
  IN  SumLoop(limit, n, VectorLoop(0, limit, 0))

RECURSIVE ChunkLoop(_, _, _, _)
\* for (chunk = 0; chunk < n; chunk += chunkSize) { for (i = chunk; i < chunkEnd; i++) sum += i }
ChunkLoop(chunk, chunkSize, n, sum) ==
  IF chunk < n
  THEN ChunkLoop(chunk + chunkSize, chunkSize, n,
                 SumLoop(chunk, Min(chunk + chunkSize, n), sum))
  ELSE sum

cacheFriendly(n) ==
  LET intsPerCacheLine == cacheLineSize \div 4
      chunkSize == intsPerCacheLine * 1000
  IN  ChunkLoop(0, chunkSize, n, 0)

RECURSIVE tailRecursive(_, _, _)
tailRecursive(n, sum, current) ==
  IF current >= n THEN sum ELSE tailRecursive(n, sum + current, current + 1)

\* The worker thread: the sum of start .. end - 1 that it posts.
WorkerSum(start, end) == SumLoop(start, end, 0)

\* ------------------------------------------------------------ partitioning

\* A break on start > n instead of start >= n.
DispatchesOffByOne(i, chunkSize, n) == i * chunkSize <= n

\* Whether parallelWorkers dispatches a worker at loop index i: the loop breaks
\* at the first start >= n.
Dispatches(i, chunkSize, n) == i * chunkSize < n

RECURSIVE RangesFrom(_, _, _, _)
\* The loop of parallelWorkers from index i: the {start, end} it dispatches.
RangesFrom(i, numWorkers, chunkSize, n) ==
  IF i < numWorkers /\ Dispatches(i, chunkSize, n)
  THEN <<[start |-> i * chunkSize, end |-> Min(i * chunkSize + chunkSize, n)]>>
       \o RangesFrom(i + 1, numWorkers, chunkSize, n)
  ELSE <<>>

\* Math.floor instead of Math.ceil.
ChunkSizeFloor(n, numWorkers) == n \div numWorkers

\* chunkSize = Math.ceil(n / numWorkers)
ChunkSize(n, numWorkers) == CeilDiv(n, numWorkers)

\* The ranges parallelWorkers(n) dispatches on a machine of numWorkers CPUs.
Ranges(n, numWorkers) == RangesFrom(0, numWorkers, ChunkSize(n, numWorkers), n)

RECURSIVE Reduce(_, _, _)
\* results.reduce((sum, result) => sum + result, acc) from index i.
Reduce(values, i, acc) ==
  IF i > Len(values) THEN acc ELSE Reduce(values, i + 1, acc + values[i])

\* parallelWorkers(n) when every worker posts its sum.
parallelWorkers(n, numWorkers) ==
  LET rs == Ranges(n, numWorkers)
  IN  Reduce([k \in 1..Len(rs) |-> WorkerSum(rs[k].start, rs[k].end)], 1, 0)
\* ------------------------------------------------ values, records, promises
\* In the suite a strategy's numeric result is kept as the ranges it summed, in
\* the order it added them: <<r1, .., rk>> stands for 0 + sum(r1) + .. + sum(rk).
\* The number 0 is the empty list.

Range(start, end) == [start |-> start, end |-> end]
Zero == [t |-> "number", parts |-> <<>>]
SumOf(t, parts) == [t |-> t, parts |-> parts]

\* BenchmarkResult.time: a mean of whole-millisecond readings, num / den, or Infinity.
Finite(num, den) == [inf |-> FALSE, num |-> num, den |-> den]
Infinity == [inf |-> TRUE, num |-> 0, den |-> 1]

\* BenchmarkResult.error: undefined, or the message.
Undefined == [set |-> FALSE, msg |-> ""]
ErrorText(msg) == [set |-> TRUE, msg |-> msg]

NoRecord == [name |-> "", time |-> Infinity, result |-> Zero, error |-> Undefined]

NoOutcome == [st |-> "none", value |-> Zero, reason |-> ""]
Pending == [st |-> "pending", value |-> Zero, reason |-> ""]
Fulfilled(value) == [st |-> "fulfilled", value |-> value, reason |-> ""]
Rejected(reason) == [st |-> "rejected", value |-> Zero, reason |-> reason]

\* The suite before main runs, and throughout a specification that does not run it.
SuiteIdle ==
  /\ isDevelopment = FALSE
  /\ isFullTest = FALSE
  /\ benchmarks = <<>>
  /\ bi = 1
  /\ pc = "idle"
  /\ phase = "warmup"
  /\ wi = 0
  /\ run = 0
  /\ times = <<>>
  /\ finalResult = Zero
  /\ returned = NoRecord
  /\ results = <<>>
  /\ outcome = NoOutcome
  /\ workers = <<>>
  /\ orphans = 0
  /\ calls = <<>>
  /\ active = {}
  /\ cooled = 0
  /\ workerFailed = FALSE
  /\ threw = {}
  /\ ranking = <<>>
  /\ failedList = <<>>
  /\ verification = ""
  /\ pool = <<>>
  /\ completion = <<>>
  /\ firstFailure = [k |-> 0, text |-> ""]
  /\ reduceRan = FALSE

\* ----------------------------------------------- the strategies, called directly

\* Inputs on which the loops are run.
SmallInputs == 0..MaxN

\* 2^27 + 3 is the least odd n = 3 (mod 4) above 2^27: n * (n - 1) needs 55 bits.
\* 100,000,000 and config.maxNumber are the sizes main runs; 1,000,000 is the
\* warmup size of both.
LargeInputs == {1000000, 100000000, 2^27 + 3, 1000000000}

\* Inputs of the closed forms, which do not loop.
FormulaInputs == SmallInputs \cup LargeInputs

NoValue == [t |-> "none", w |-> <<0, 0>>]

InitCall ==
  /\ fn = "none"
  /\ arg = 0
  /\ cpus \in 1..MaxCpus
  /\ ret = NoValue
  /\ dispatched = <<>>
  /\ SuiteIdle

\* A synchronous strategy was called with n; what it returned is in ret.
Returns(name, n) ==
  /\ fn' = name
  /\ arg' = n
  /\ dispatched' = <<>>
  /\ UNCHANGED <<cpus, poolVars, suiteVars, formatVars>>

CallMathFormula ==
  \E n \in FormulaInputs :
    /\ ret' = mathFormula(n)
    /\ Returns("mathFormula", n)

CallMathFormulaBigInt ==
  \E n \in FormulaInputs :
    /\ ret' = mathFormulaBigInt(n)
    /\ Returns("mathFormulaBigInt", n)

CallOptimizedLoop ==
  \E n \in SmallInputs :
    /\ ret' = Number(Wide(optimizedLoop(n)))
    /\ Returns("optimizedLoop", n)

CallAssemblyStyleLoop ==
  \E n \in SmallInputs :
    /\ ret' = Number(Wide(assemblyStyleLoop(n)))
    /\ Returns("assemblyStyleLoop", n)

CallTypedArrayOptimal ==
  \E n \in SmallInputs :
    /\ ret' = Number(Wide(typedArrayOptimal(n)))
    /\ Returns("typedArrayOptimal", n)

CallSimdStyle ==
  \E n \in SmallInputs :
    /\ ret' = Number(Wide(simdStyle(n)))
    /\ Returns("simdStyle", n)

CallCacheFriendly ==
  \E n \in SmallInputs :
    /\ ret' = Number(Wide(cacheFriendly(n)))
    /\ Returns("cacheFriendly", n)

CallTailRecursive ==
  \E n \in SmallInputs :
    /\ ret' = Number(Wide(tailRecursive(n, 0, 0)))
    /\ Returns("tailRecursive", n)

\* parallelWorkers(n) with every worker posting its sum.
CallParallelWorkers ==
  \E n \in SmallInputs :
    /\ fn' = "parallelWorkers"
    /\ arg' = n
    /\ dispatched' = Ranges(n, cpus)
    /\ ret' = Number(Wide(parallelWorkers(n, cpus)))
    /\ UNCHANGED <<cpus, poolVars, suiteVars, formatVars>>

NextCall ==
  \/ CallMathFormula
  \/ CallMathFormulaBigInt
  \/ CallOptimizedLoop
  \/ CallAssemblyStyleLoop
  \/ CallTypedArrayOptimal
  \/ CallSimdStyle
  \/ CallCacheFriendly
  \/ CallTailRecursive
  \/ CallParallelWorkers

SpecStrategies == InitCall /\ [][NextCall]_vars

\* ------------------------------------------------------------------ the suite
\* main's loop over a list of benchmarks, runBenchmark, parallelWorkers and its
\* workers, at the sizes main runs.  A "sync" strategy stands for the synchronous
\* strategies main registers: called with n it returns the sum of 0 .. n - 1, or
\* throws.  The "parallel" strategy is parallelWorkers.

SyncStrategy == [name |-> "Optimized Loop", kind |-> "sync"]
ParallelStrategy == [name |-> "Parallel Workers", kind |-> "parallel"]
StrategyPool == {SyncStrategy, ParallelStrategy}
BenchmarkLists == UNION {[1..k -> StrategyPool] : k \in 1..MaxBenchmarks}

\* The messages of the values a strategy throws.
ThrownMessages == {"", "Invalid typed array length"}
\* The message of an error event of a worker.
WorkerErrorMessage == "worker error"
WorkerExitMessage == "Worker stopped with exit code 1"
WorkerTimeoutMessage == "Worker timeout"
\* The readings end - start of performance.now(), in milliseconds.
Durations == {2}

\* main: testSize = isFullTest ? config.maxNumber : 100_000_000
testSize == IF isFullTest THEN maxNumber ELSE defaultSize

\* runBenchmark: warmupSize = Math.min(n / 100, 1_000_000)
WarmupSize(n) == Min(n \div 100, warmupCap)

\* runBenchmark: if (!isDevelopment) { warmup }
\* The warmup also runs in development mode.
WarmupAlways == TRUE

WarmupEnabled == ~isDevelopment

InitSuite ==
  /\ cpus \in 1..MaxSuiteCpus
  /\ fn = "none"
  /\ arg = 0
  /\ ret = NoValue
  /\ dispatched = <<>>
  /\ isDevelopment \in BOOLEAN
  /\ isFullTest \in BOOLEAN
  /\ benchmarks \in BenchmarkLists
  /\ bi = 1
  /\ pc = "main"
  /\ phase = "warmup"
  /\ wi = 0
  /\ run = 0
  /\ times = <<>>
  /\ finalResult = Zero
  /\ returned = NoRecord
  /\ results = <<>>
  /\ outcome = NoOutcome
  /\ workers = <<>>
  /\ orphans = 0
  /\ calls = <<>>
  /\ active = {}
  /\ cooled = 0
  /\ workerFailed = FALSE
  /\ threw = {}
  /\ ranking = <<>>
  /\ failedList = <<>>
  /\ verification = ""
  /\ pool = <<>>
  /\ completion = <<>>
  /\ firstFailure = [k |-> 0, text |-> ""]
  /\ reduceRan = FALSE

\* main calls runBenchmark(name, fn, testSize), which runs to its first loop.
EnterRunBenchmark ==
  /\ pc = "main"
  /\ bi <= Len(benchmarks)
  /\ pc' = "loop"
  /\ phase' = IF WarmupEnabled THEN "warmup" ELSE "measure"
  /\ wi' = 0
  /\ run' = 0
  /\ times' = <<>>
  /\ finalResult' = Zero
  /\ calls' = <<>>
  /\ workerFailed' = FALSE
  /\ UNCHANGED <<cpus, poolVars, callVars, formatVars, isDevelopment, isFullTest, benchmarks, bi, returned,
                 results, outcome, workers, orphans, active, cooled, threw>>

\* The invocation runBenchmark is in: which benchmark, which loop, which round.
CurrentInvocation ==
  [b |-> bi, phase |-> phase, idx |-> IF phase = "warmup" THEN wi ELSE run]

InvocationSize == IF phase = "warmup" THEN WarmupSize(testSize) ELSE testSize

\* createWorker(start, end): a worker thread, its promise and its timer.
Worker(range) == [range |-> range, thread |-> "computing", promise |-> "pending", reason |-> ""]

\* Promise.allSettled in place of Promise.all: the sum of the fulfilled promises.
InvocationOutcomeAllSettled(ws) ==
  IF \A k \in DOMAIN ws : ws[k].promise # "pending"
  THEN Fulfilled(SumOf("number",
         SelectSeq([k \in DOMAIN ws |-> ws[k].range],
                   LAMBDA r : \E k \in DOMAIN ws : ws[k].range = r /\ ws[k].promise = "resolved")))
  ELSE Pending

\* await Promise.all(promises), then results.reduce(...): rejected with the reason
\* of a rejected promise, fulfilled with the sum of all results in the order of
\* the promises, pending otherwise.
InvocationOutcome(ws) ==
  IF \E k \in DOMAIN ws : ws[k].promise = "rejected"
  THEN Rejected(ws[CHOOSE k \in DOMAIN ws : ws[k].promise = "rejected"].reason)
  ELSE IF \A k \in DOMAIN ws : ws[k].promise = "resolved"
       THEN Fulfilled(SumOf("number", [k \in DOMAIN ws |-> ws[k].range]))
       ELSE Pending

\* The loop runBenchmark is in has a round left.
LoopContinues ==
  \/ phase = "warmup" /\ wi < warmupRuns
  \/ phase = "measure" /\ run < testRuns

\* await fn(warmupSize) or finalResult = await fn(n): the call of the strategy.
\* parallelWorkers creates its workers before it returns its promise.
Invoke ==
  /\ pc = "loop"
  /\ LoopContinues
  /\ pc' = "await"
  /\ calls' = Append(calls, [phase |-> phase, size |-> InvocationSize])
  /\ active' = active \cup {CurrentInvocation}
  /\ IF benchmarks[bi].kind = "parallel"
     THEN LET rs == Ranges(InvocationSize, cpus)
          IN  /\ workers' = [k \in 1..Len(rs) |-> Worker(rs[k])]
              /\ outcome' = InvocationOutcome(workers')
     ELSE /\ workers' = <<>>
          /\ outcome' = Pending
  /\ UNCHANGED <<cpus, poolVars, callVars, formatVars, isDevelopment, isFullTest, benchmarks, bi, phase, wi,
                 run, times, finalResult, returned, results, orphans, cooled,
                 workerFailed, threw>>

\* The warmup loop ends.
WarmupDone ==
  /\ pc = "loop"
  /\ phase = "warmup"
  /\ ~LoopContinues
  /\ phase' = "measure"
  /\ UNCHANGED <<cpus, poolVars, callVars, formatVars, isDevelopment, isFullTest, benchmarks, bi, pc, wi, run,
                 times, finalResult, returned, results, outcome, workers, orphans,
                 calls, active, cooled, workerFailed, threw>>

RECURSIVE SumSeq(_, _)
\* times.reduce((a, b) => a + b) from index i.
SumSeq(ts, i) == IF i > Len(ts) THEN 0 ELSE ts[i] + SumSeq(ts, i + 1)

\* The measurement loop ends: runBenchmark returns the record of a success.
ReturnResult ==
  /\ pc = "loop"
  /\ phase = "measure"
  /\ ~LoopContinues
  /\ returned' = [name |-> benchmarks[bi].name,
                  time |-> Finite(SumSeq(times, 1), Len(times)),
                  result |-> finalResult,
                  error |-> Undefined]
  /\ pc' = "returned"
  /\ UNCHANGED <<cpus, poolVars, callVars, formatVars, isDevelopment, isFullTest, benchmarks, bi, phase, wi,
                 run, times, finalResult, results, outcome, workers, orphans, calls,
                 active, cooled, workerFailed, threw>>

\* The invocation awaited settles as o.
Settles(o) ==
  /\ outcome' = o
  /\ active' = IF o.st = "pending" THEN active ELSE active \ {CurrentInvocation}
  /\ threw' = IF o.st = "rejected" THEN threw \cup {bi} ELSE threw

\* What a strategy without workers returns for n: the sum of 0 .. n - 1 as a
\* number or as a bigint, and 0 from the entry of the stress test ("Dummy return").
StrategyValue(kind, n) ==
  CASE kind = "sync" -> SumOf("number", <<Range(0, n)>>)
    [] kind = "bigint" -> SumOf("bigint", <<Range(0, n)>>)
    [] kind = "stress" -> Zero

\* A strategy without workers returns.
SyncReturns ==
  /\ pc = "await"
  /\ benchmarks[bi].kind # "parallel"
  /\ outcome.st = "pending"
  /\ Settles(Fulfilled(StrategyValue(benchmarks[bi].kind, InvocationSize)))
  /\ UNCHANGED <<cpus, poolVars, callVars, formatVars, isDevelopment, isFullTest, benchmarks, bi, pc, phase,
                 wi, run, times, finalResult, returned, results, workers, orphans,
                 calls, cooled, workerFailed>>

\* A strategy without workers throws.
SyncThrows ==
  /\ pc = "await"
  /\ benchmarks[bi].kind # "parallel"
  /\ outcome.st = "pending"
  /\ \E m \in ThrownMessages : Settles(Rejected(m))
  /\ UNCHANGED <<cpus, poolVars, callVars, formatVars, isDevelopment, isFullTest, benchmarks, bi, pc, phase,
                 wi, run, times, finalResult, returned, results, workers, orphans,
                 calls, cooled, workerFailed>>

\* An event of worker k of the invocation awaited, handled on the main thread
\* while the promise of parallelWorkers is pending: the reactions of a settled
\* promise run before the next event is handled.
WorkerEvent(k, thread, promise, reason, failure) ==
  /\ pc = "await"
  /\ outcome.st = "pending"
  /\ workers' = [workers EXCEPT ![k] = [range |-> workers[k].range, thread |-> thread,
                                         promise |-> promise, reason |-> reason]]
  /\ workerFailed' = (workerFailed \/ failure)
  /\ Settles(InvocationOutcome(workers'))
  /\ UNCHANGED <<cpus, poolVars, callVars, formatVars, isDevelopment, isFullTest, benchmarks, bi, pc, phase,
                 wi, run, times, finalResult, returned, results, orphans, calls, cooled>>

\* worker.on("message"): clearTimeout, resolve(result).
WorkerMessage ==
  \E k \in DOMAIN workers :
    /\ workers[k].thread = "computing"
    /\ WorkerEvent(k, "posted", "resolved", "", FALSE)

\* worker.on("exit") with code 0, after the worker posted its sum: nothing.
WorkerExitZero ==
  \E k \in DOMAIN workers :
    /\ workers[k].thread = "posted"
    /\ WorkerEvent(k, "exited", workers[k].promise, workers[k].reason, FALSE)

\* worker.on("error"): clearTimeout, reject(error).
WorkerError ==
  \E k \in DOMAIN workers :
    /\ workers[k].thread = "computing"
    /\ WorkerEvent(k, "crashed", "rejected", WorkerErrorMessage, TRUE)

\* worker.on("exit") with a code other than 0: clearTimeout, reject.
WorkerExitNonZero ==
  \E k \in DOMAIN workers :
    /\ workers[k].thread = "computing"
    /\ WorkerEvent(k, "exited", "rejected", WorkerExitMessage, TRUE)

\* The 300000 ms timer of a worker no event of which was handled: terminate, reject.
WorkerTimeout ==
  \E k \in DOMAIN workers :
    /\ workers[k].thread = "computing"
    /\ WorkerEvent(k, "terminated", "rejected", WorkerTimeoutMessage, TRUE)

\* runBenchmark's loop continues without the await.
NotAwaited(o) == TRUE

\* await: runBenchmark continues once the promise has settled.
Awaited(o) == o.st \in {"fulfilled", "rejected"}

\* runBenchmark after the await: the next round of the loop, or the catch block,
\* which returns the record of a failure.  The workers of the invocation that are
\* still computing are left to themselves.
Continue ==
  /\ pc = "await"
  /\ Awaited(outcome)
  /\ outcome' = NoOutcome
  /\ workers' = <<>>
  /\ orphans' = orphans + Cardinality({k \in DOMAIN workers : workers[k].thread = "computing"})
  /\ IF outcome.st = "rejected"
     THEN /\ returned' = [name |-> benchmarks[bi].name,
                          time |-> Infinity,
                          result |-> Zero,
                          error |-> ErrorText(outcome.reason)]
          /\ pc' = "returned"
          /\ UNCHANGED <<wi, run, times, finalResult>>
     ELSE /\ pc' = "loop"
          /\ returned' = returned
          /\ IF phase = "warmup"
             THEN /\ wi' = wi + 1
                  /\ UNCHANGED <<run, times, finalResult>>
             ELSE /\ \E d \in Durations : times' = Append(times, d)
                  /\ finalResult' = outcome.value
                  /\ run' = run + 1
                  /\ wi' = wi
  /\ UNCHANGED <<cpus, poolVars, callVars, formatVars, isDevelopment, isFullTest, benchmarks, bi, phase,
                 results, calls, active, cooled, workerFailed, threw>>

\* main's catch block in place of results.push for a failed record.
PushResultUnlessFailed(rs, r) == IF r.error.set THEN rs ELSE Append(rs, r)

\* results.push(result)
PushResult(rs, r) == Append(rs, r)

\* main: results.push(result), then the pause begins.
MainPush ==
  /\ pc = "returned"
  /\ results' = PushResult(results, returned)
  /\ returned' = NoRecord
  /\ pc' = "pause"
  /\ UNCHANGED <<cpus, poolVars, callVars, formatVars, isDevelopment, isFullTest, benchmarks, bi, phase, wi,
                 run, times, finalResult, outcome, workers, orphans, calls, active,
                 cooled, workerFailed, threw>>

\* main: the timer of the pause between benchmarks fires; the next iteration.
PauseEnds ==
  /\ pc = "pause"
  /\ cooled' = cooled + 1
  /\ bi' = bi + 1
  /\ pc' = "main"
  /\ UNCHANGED <<cpus, poolVars, callVars, formatVars, isDevelopment, isFullTest, benchmarks, phase, wi, run,
                 times, finalResult, returned, results, outcome, workers, orphans,
                 calls, active, workerFailed, threw>>

\* main: the loop over the benchmarks ends.
LoopEnds ==
  /\ pc = "main"
  /\ bi > Len(benchmarks)
  /\ pc' = "format"
  /\ UNCHANGED <<cpus, poolVars, callVars, formatVars, isDevelopment, isFullTest, benchmarks, bi, phase, wi,
                 run, times, finalResult, returned, results, outcome, workers, orphans,
                 calls, active, cooled, workerFailed, threw>>

\* A worker of a settled invocation stops computing.
OrphanEnds ==
  /\ orphans > 0
  /\ orphans' = orphans - 1
  /\ UNCHANGED <<cpus, poolVars, callVars, formatVars, isDevelopment, isFullTest, benchmarks, bi, pc, phase,
                 wi, run, times, finalResult, returned, results, outcome, workers,
                 calls, active, cooled, workerFailed, threw>>


\* -------------------------------------------------------------- formatResults

\* A value is truthy as an error unless it is undefined or the empty string.
Truthy(e) == e.set /\ e.msg # ""

\* results.filter((r) => !r.error)
validResults(rs) == SelectSeq(rs, LAMBDA r : ~Truthy(r.error))

\* results.filter((r) => r.error)
failedResults(rs) == SelectSeq(rs, LAMBDA r : Truthy(r.error))

\* The sign of a.time - b.time as sort reads it: Infinity - Infinity is NaN,
\* which sort takes for 0.
Compare(a, b) ==
  CASE a.time.inf /\ b.time.inf -> 0
    [] a.time.inf -> 1
    [] b.time.inf -> 0 - 1
    [] OTHER -> LET d == a.time.num * b.time.den - b.time.num * a.time.den
                IN  IF d < 0 THEN 0 - 1 ELSE IF d > 0 THEN 1 ELSE 0

RECURSIVE InsertSorted(_, _, _)
\* r put into sorted from index j on, before the first element that compares greater.
InsertSorted(sorted, r, j) ==
  IF j > Len(sorted) THEN Append(sorted, r)
  ELSE IF Compare(sorted[j], r) > 0
       THEN SubSeq(sorted, 1, j - 1) \o <<r>> \o SubSeq(sorted, j, Len(sorted))
       ELSE InsertSorted(sorted, r, j + 1)

RECURSIVE SortFrom(_, _, _)
SortFrom(rs, i, sorted) ==
  IF i > Len(rs) THEN sorted ELSE SortFrom(rs, i + 1, InsertSorted(sorted, rs[i], 1))

\* [...validResults].sort((a, b) => a.time - b.time): Array.prototype.sort is stable.
sortedResults(valid) == SortFrom(valid, 1, <<>>)

NaN == [nan |-> TRUE, num |-> 0, den |-> 1]
Ratio(num, den) == [nan |-> FALSE, num |-> num, den |-> den]

\* result.time / fastest.time
SpeedupInverted(fastest, r) ==
  IF fastest.time.inf \/ r.time.inf THEN NaN
  ELSE Ratio(r.time.num * fastest.time.den, r.time.den * fastest.time.num)

\* fastest.time / result.time on doubles, for times above 0: Infinity / Infinity is
\* NaN, x / Infinity is 0.  The fastest has the least time, so Infinity / x with x
\* finite does not arise.
Speedup(fastest, r) ==
  IF r.time.inf
  THEN IF fastest.time.inf THEN NaN ELSE Ratio(0, 1)
  ELSE Ratio(fastest.time.num * r.time.den, fastest.time.den * r.time.num)

\* speedup.toFixed(2), in hundredths: the nearest hundredth, the larger of two
\* equally near (exact on the quotients the model draws; a quotient that a double
\* does not hold exactly is rounded as the double).
ToFixed2(x) ==
  IF x.nan THEN [nan |-> TRUE, hundredths |-> 0]
  ELSE [nan |-> FALSE, hundredths |-> (200 * x.num + x.den) \div (2 * x.den)]

\* 0 + 1 + ... + (b - 1) for 0 <= b < 2^30, as a wide value.
SumBelow(b) == IF b = 0 THEN <<0, 0>> ELSE WideHalf(WideMul(b, b - 1))

RECURSIVE SumParts(_, _, _)
\* The number a value stands for: 0 + sum(parts[1]) + ... from index i, each part
\* the sum of start .. end - 1.  The sums of doubles are exact below 2^53, which
\* holds up to the default test size; at the full size the loops pass 2^53
\* and the value taken here is the exact one.
SumParts(parts, i, acc) ==
  IF i > Len(parts) THEN acc
  ELSE SumParts(parts, i + 1,
                WideAdd(acc, WideSub(SumBelow(parts[i].end), SumBelow(parts[i].start))))

NumericValue(v) == SumParts(v.parts, 1, <<0, 0>>)

RECURSIVE Digits(_)
\* The decimal digits of a wide value.
Digits(w) ==
  IF w[1] = 0 /\ w[2] < 10 THEN <<w[2]>>
  ELSE LET qr == WideDivMod10(w) IN Append(Digits(qr[1]), qr[2])

\* r.result.toString(): for a number that is an integer below 2^53 and for a
\* bigint, the decimal digits.
ToStringJS(v) == Digits(NumericValue(v))

\* new Set(validResults.map((r) => r.result.toString()))
uniqueResults(valid) == {ToStringJS(valid[k].result) : k \in DOMAIN valid}

\* The row printed for sorted[k].
Row(fastest, r, k) ==
  [rank |-> k, name |-> r.name, time |-> r.time, speedup |-> Speedup(fastest, r),
   speedupStr |-> ToFixed2(Speedup(fastest, r)), result |-> r.result]

\* formatResults(results)
FormatResults ==
  /\ pc = "format"
  /\ pc' = "done"
  /\ LET valid == validResults(results)
         failed == failedResults(results)
         sorted == sortedResults(valid)
     IN  IF Len(valid) = 0
         THEN /\ ranking' = <<>>
              /\ failedList' = <<>>
              /\ verification' = "none"
         ELSE /\ ranking' = [k \in 1..Len(sorted) |-> Row(sorted[1], sorted[k], k)]
              /\ failedList' = [k \in 1..Len(failed) |-> failed[k].name]
              /\ verification' = IF Cardinality(uniqueResults(valid)) = 1
                                 THEN "pass" ELSE "fail"
  /\ UNCHANGED <<cpus, poolVars, callVars, isDevelopment, isFullTest, benchmarks, bi, phase, wi,
                 run, times, finalResult, returned, results, outcome, workers, orphans,
                 calls, active, cooled, workerFailed, threw>>

\* main: the suite loop, then formatResults(results).
NextSuite ==
  \/ EnterRunBenchmark
  \/ Invoke
  \/ WarmupDone
  \/ ReturnResult
  \/ SyncReturns
  \/ SyncThrows
  \/ WorkerMessage
  \/ WorkerExitZero
  \/ WorkerError
  \/ WorkerExitNonZero
  \/ WorkerTimeout
  \/ Continue
  \/ MainPush
  \/ PauseEnds
  \/ LoopEnds
  \/ OrphanEnds
  \/ FormatResults

SpecSuite == InitSuite /\ [][NextSuite]_vars

\* The mean times, in milliseconds, of the results formatResults is applied to.
TimePool == {10, 50, 100}

\* Their values: 45 as a number, as a bigint and as the sum of two worker ranges,
\* 36, and 0.
ValuePool ==
  { SumOf("number", <<Range(0, 10)>>), SumOf("bigint", <<Range(0, 10)>>),
    SumOf("number", <<Range(0, 5), Range(5, 10)>>), SumOf("number", <<Range(0, 9)>>),
    Zero }

ResultNames == <<"A", "B", "C", "D", "E">>

\* The records runBenchmark returns, but for the name.
RecordPool ==
  {[time |-> Finite(t, 1), result |-> v, error |-> Undefined] : t \in TimePool, v \in ValuePool}
  \cup {[time |-> Infinity, result |-> Zero, error |-> ErrorText(m)] : m \in ThrownMessages}

\* The list of k results with the records rs, named in list order.
ResultList(k, rs) ==
  [i \in 1..k |-> [name |-> ResultNames[i], time |-> rs[i].time,
                   result |-> rs[i].result, error |-> rs[i].error]]

InitFormat ==
  /\ cpus = 1
  /\ fn = "none"
  /\ arg = 0
  /\ ret = NoValue
  /\ dispatched = <<>>
  /\ isDevelopment = FALSE
  /\ isFullTest = FALSE
  /\ benchmarks = <<>>
  /\ bi = 1
  /\ pc = "format"
  /\ phase = "warmup"
  /\ wi = 0
  /\ run = 0
  /\ times = <<>>
  /\ finalResult = Zero
  /\ returned = NoRecord
  /\ \E k \in 0..MaxResults : \E rs \in [1..k -> RecordPool] : results = ResultList(k, rs)
  /\ outcome = NoOutcome
  /\ workers = <<>>
  /\ orphans = 0
  /\ calls = <<>>
  /\ active = {}
  /\ cooled = 0
  /\ workerFailed = FALSE
  /\ threw = {}
  /\ ranking = <<>>
  /\ failedList = <<>>
  /\ verification = ""
  /\ pool = <<>>
  /\ completion = <<>>
  /\ firstFailure = [k |-> 0, text |-> ""]
  /\ reduceRan = FALSE

SpecFormat == InitFormat /\ [][FormatResults]_vars

\* ----------------------------------------------------- main's registered suite
\* main with the benchmarks it registers, every invocation of which succeeds,
\* followed by formatResults.

\* main: the benchmarks array.  The first entry and the loops are strategies that
\* return the sum as a number.
RegisteredBenchmarks ==
  << [name |-> "Mathematical Formula", kind |-> "sync"],
     [name |-> "BigInt Math Formula", kind |-> "bigint"],
     [name |-> "Assembly Style Loop", kind |-> "sync"],
     [name |-> "SIMD Style Processing", kind |-> "sync"],
     [name |-> "Optimized Loop", kind |-> "sync"],
     [name |-> "Cache Friendly", kind |-> "sync"],
     [name |-> "Typed Array Optimal", kind |-> "sync"],
     [name |-> "Parallel Workers", kind |-> "parallel"],
     [name |-> "Realistic Stress Test", kind |-> "stress"] >>

\* main: the size up to which the tail recursive entry is added.
tailRecursiveLimit == 10000

\* main: benchmarks.push(["Tail Recursive", ...]) for small test sizes only.
Benchmarks ==
  IF testSize <= tailRecursiveLimit
  THEN Append(RegisteredBenchmarks, [name |-> "Tail Recursive", kind |-> "sync"])
  ELSE RegisteredBenchmarks

InitMain ==
  /\ cpus \in 1..MaxSuiteCpus
  /\ fn = "none"
  /\ arg = 0
  /\ ret = NoValue
  /\ dispatched = <<>>
  /\ isDevelopment \in BOOLEAN
  /\ isFullTest \in BOOLEAN
  /\ benchmarks = Benchmarks
  /\ bi = 1
  /\ pc = "main"
  /\ phase = "warmup"
  /\ wi = 0
  /\ run = 0
  /\ times = <<>>
  /\ finalResult = Zero
  /\ returned = NoRecord
  /\ results = <<>>
  /\ outcome = NoOutcome
  /\ workers = <<>>
  /\ orphans = 0
  /\ calls = <<>>
  /\ active = {}
  /\ cooled = 0
  /\ workerFailed = FALSE
  /\ threw = {}
  /\ ranking = <<>>
  /\ failedList = <<>>
  /\ verification = ""
  /\ pool = <<>>
  /\ completion = <<>>
  /\ firstFailure = [k |-> 0, text |-> ""]
  /\ reduceRan = FALSE

NextMain ==
  \/ EnterRunBenchmark
  \/ Invoke
  \/ WarmupDone
  \/ ReturnResult
  \/ SyncReturns
  \/ WorkerMessage
  \/ WorkerExitZero
  \/ Continue
  \/ MainPush
  \/ PauseEnds
  \/ LoopEnds
  \/ FormatResults

SpecMain == InitMain /\ [][NextMain]_vars

\* ------------------------------------------- one parallelWorkers invocation
\* runBenchmark awaits parallelWorkers(n); the events of its workers are handled
\* one at a time on the main thread, and the reactions of the promises an event
\* settles (Promise.all, the reduce, runBenchmark's catch) run before the next
\* event is handled.

\* The sizes and the numbers of CPUs the invocation is run with.
MaxPoolN == 3
MaxPoolCpus == 3

\* The exit codes of a worker that ends without a message or an error event.
ExitCodes == {0, 1}

NoFailure == [k |-> 0, text |-> ""]

\* createWorker(start, end): the worker thread, the promise returned and the
\* 300000 ms timer.
createWorker(range) ==
  [range |-> range, thread |-> "computing", promise |-> "pending", reason |-> "",
   timer |-> "armed"]

\* reject(error) replaces the reason of a promise already rejected.
rejectOverwrites(w, text) ==
  IF w.promise = "resolved" THEN w ELSE [w EXCEPT !.promise = "rejected", !.reason = text]

\* resolve(result) and reject(error) settle a pending promise and do nothing to a
\* settled one.
resolve(w) == IF w.promise = "pending" THEN [w EXCEPT !.promise = "resolved"] ELSE w
reject(w, text) ==
  IF w.promise = "pending" THEN [w EXCEPT !.promise = "rejected", !.reason = text] ELSE w

\* The handlers leave the timer running.
timeoutNotCleared(w) == w

\* clearTimeout(timeout)
clearTimeout(w) == IF w.timer = "armed" THEN [w EXCEPT !.timer = "cleared"] ELSE w

\* Promise.any in place of Promise.all: settled by the first promise fulfilled.
PromiseAny(ws, before) ==
  IF before # "pending" THEN before
  ELSE IF \E k \in DOMAIN ws : ws[k].promise = "resolved" THEN "fulfilled"
       ELSE IF ws # <<>> /\ \A k \in DOMAIN ws : ws[k].promise = "rejected" THEN "rejected"
            ELSE "pending"

\* Promise.all(promises), whose state was before and whose promises are now ws:
\* once settled it stays; it rejects when one promise rejects and is fulfilled
\* when all are.
PromiseAll(ws, before) ==
  IF before # "pending" THEN before
  ELSE IF \E k \in DOMAIN ws : ws[k].promise = "rejected" THEN "rejected"
       ELSE IF \A k \in DOMAIN ws : ws[k].promise = "resolved" THEN "fulfilled"
            ELSE "pending"

\* The results combined in the order the messages were handled.
ReduceOrderCompleted(ws, done) == [j \in DOMAIN done |-> ws[done[j]].range]

\* results.reduce((sum, result) => sum + result, 0): Promise.all keeps the order
\* of the promises, whatever the order they were fulfilled in.
ReduceOrder(ws, done) == [k \in DOMAIN ws |-> ws[k].range]

\* The text runBenchmark's catch records when the invocation rejects: the reason
\* of the promise whose rejection rejected Promise.all.
CaughtText(ws, before) ==
  LET k == CHOOSE k \in DOMAIN ws : ws[k].promise = "rejected"
  IN  ws[k].reason

\* The reactions to the promises becoming ws: Promise.all settles, parallelWorkers
\* reduces and returns, runBenchmark stores the value or catches the rejection.
Reactions(ws, done) ==
  LET st == PromiseAll(ws, outcome.st)
  IN  IF st = outcome.st
      THEN UNCHANGED <<outcome, reduceRan, finalResult, ret, returned>>
      ELSE IF st = "fulfilled"
           THEN /\ reduceRan' = TRUE
                /\ outcome' = Fulfilled(SumOf("number", ReduceOrder(ws, done)))
                /\ finalResult' = outcome'.value
                /\ ret' = Number(Wide(Reduce([k \in DOMAIN ws |->
                                   WorkerSum(ws[k].range.start, ws[k].range.end)], 1, 0)))
                /\ returned' = returned
           ELSE /\ outcome' = Rejected(CaughtText(ws, outcome.st))
                /\ returned' = [name |-> ParallelStrategy.name, time |-> Infinity,
                                result |-> Zero, error |-> ErrorText(outcome'.reason)]
                /\ UNCHANGED <<reduceRan, finalResult, ret>>

InitWorkers ==
  /\ cpus \in 1..MaxPoolCpus
  /\ fn = "none"
  /\ arg = 0
  /\ ret = NoValue
  /\ dispatched = <<>>
  /\ SuiteIdle

\* runBenchmark calls parallelWorkers(n): the workers are created and Promise.all
\* is awaited; with no worker it is fulfilled at once.
PwCall ==
  /\ fn = "none"
  /\ \E n \in 0..MaxPoolN :
       /\ arg' = n
       /\ dispatched' = Ranges(n, cpus)
  /\ fn' = "parallelWorkers"
  /\ pool' = [k \in DOMAIN dispatched' |-> createWorker(dispatched'[k])]
  /\ outcome = NoOutcome
  /\ LET st == PromiseAll(pool', "pending")
     IN  IF st = "fulfilled"
         THEN /\ reduceRan' = TRUE
              /\ outcome' = Fulfilled(SumOf("number", ReduceOrder(pool', <<>>)))
              /\ finalResult' = outcome'.value
              /\ ret' = Number(Wide(0))
         ELSE /\ outcome' = Pending
              /\ UNCHANGED <<reduceRan, finalResult, ret>>
  /\ UNCHANGED <<cpus, formatVars, isDevelopment, isFullTest, benchmarks, bi, pc, phase, wi,
                 run, times, returned, results, workers, orphans, calls, active,
                 cooled, workerFailed, threw, completion, firstFailure>>

\* What an event of the pool leaves alone.
PoolFrame ==
  UNCHANGED <<cpus, formatVars, fn, arg, dispatched, isDevelopment, isFullTest, benchmarks,
              bi, pc, phase, wi, run, times, results, workers, orphans, calls,
              active, cooled, workerFailed, threw>>

\* A failure event of worker k with this text has been handled.
Fails(k, text) ==
  firstFailure' = IF firstFailure = NoFailure THEN [k |-> k, text |-> text] ELSE firstFailure

\* The worker thread: parentPort.postMessage(sum); process.exit(0).
WorkerPosts ==
  \E k \in DOMAIN pool :
    /\ pool[k].thread = "computing"
    /\ pool' = [pool EXCEPT ![k].thread = "sent"]
    /\ UNCHANGED <<outcome, reduceRan, finalResult, ret, returned, completion, firstFailure>>
    /\ PoolFrame

\* worker.on("message"): clearTimeout(timeout); resolve(result).
OnMessage ==
  \E k \in DOMAIN pool :
    /\ pool[k].thread = "sent"
    /\ pool' = [pool EXCEPT ![k] = [resolve(clearTimeout(pool[k])) EXCEPT !.thread = "delivered"]]
    /\ completion' = Append(completion, k)
    /\ Reactions(pool', completion')
    /\ UNCHANGED firstFailure
    /\ PoolFrame

\* worker.on("error"): clearTimeout(timeout); reject(error).
OnError ==
  \E k \in DOMAIN pool :
    /\ pool[k].thread = "computing"
    /\ pool' = [pool EXCEPT ![k] =
                  [reject(clearTimeout(pool[k]), WorkerErrorMessage) EXCEPT !.thread = "crashed"]]
    /\ Fails(k, WorkerErrorMessage)
    /\ Reactions(pool', completion)
    /\ UNCHANGED completion
    /\ PoolFrame

\* worker.on("exit") with code 0: clearTimeout(timeout) and nothing else.  The
\* worker ended after its message was handled, or without one.
OnExitZero ==
  \E k \in DOMAIN pool :
    /\ \/ pool[k].thread = "delivered" /\ pool[k].timer # "fired"
       \/ pool[k].thread = "computing" /\ 0 \in ExitCodes
    /\ pool' = [pool EXCEPT ![k] = [clearTimeout(pool[k]) EXCEPT !.thread = "exited"]]
    /\ Reactions(pool', completion)
    /\ UNCHANGED <<completion, firstFailure>>
    /\ PoolFrame

\* worker.on("exit") with code 1: clearTimeout(timeout); reject(new Error(...)).
\* The worker ended after an error, after terminate(), or by itself.
OnExitNonZero ==
  \E k \in DOMAIN pool :
    /\ \/ pool[k].thread \in {"crashed", "terminated"}
       \/ pool[k].thread \in {"sent", "delivered"} /\ pool[k].timer = "fired"
       \/ pool[k].thread = "computing" /\ 1 \in ExitCodes
    /\ pool' = [pool EXCEPT ![k] =
                  [reject(clearTimeout(pool[k]), WorkerExitMessage) EXCEPT !.thread = "exited"]]
    /\ IF pool[k].promise = "pending" THEN Fails(k, WorkerExitMessage) ELSE UNCHANGED firstFailure
    /\ Reactions(pool', completion)
    /\ UNCHANGED completion
    /\ PoolFrame

\* The timer of a worker no event of which has been handled fires:
\* worker.terminate(); reject(new Error("Worker timeout")).  A message the worker
\* has posted may still be handled.
OnTimeout ==
  \E k \in DOMAIN pool :
    /\ pool[k].timer = "armed"
    /\ pool' = [pool EXCEPT ![k] =
                  [reject(pool[k], WorkerTimeoutMessage) EXCEPT
                     !.timer = "fired",
                     !.thread = IF pool[k].thread = "computing" THEN "terminated"
                                ELSE pool[k].thread]]
    /\ Fails(k, WorkerTimeoutMessage)
    /\ Reactions(pool', completion)
    /\ UNCHANGED completion
    /\ PoolFrame

NextWorkers ==
  \/ PwCall
  \/ WorkerPosts
  \/ OnMessage
  \/ OnError
  \/ OnExitZero
  \/ OnExitNonZero
  \/ OnTimeout

SpecWorkers == InitWorkers /\ [][NextWorkers]_vars

\* The event loop handles every event that is ready, and a timer that stays armed
\* fires.
SpecWorkersFair == SpecWorkers /\ WF_vars(NextWorkers)

\* ------------------------------------------------------------------ claims

\* N * (N - 1) / 2 in exact integer arithmetic, as a wide value.
ClosedForm(n) ==
  IF n < HalfBase THEN Wide((n * (n - 1)) \div 2) ELSE WideHalf(WideMul(n, n - 1))

\* C1: every strategy, called with any integer N >= 0 (parallelWorkers on any
\* number of CPUs, all workers succeeding), returns exactly N * (N - 1) / 2.
C1_EveryStrategyReturnsClosedForm == fn # "none" => ret.w = ClosedForm(arg)

RangeLen(r) == r.end - r.start

\* C2: the ranges parallelWorkers dispatches are non-empty half-open intervals,
\* ordered and contiguous from 0 to N, every integer of [0, N) lies in exactly
\* one, none passes N or starts at or after N; N = 1,000,000 on 4 CPUs gives
\* [0,250000), [250000,500000), [500000,750000), [750000,1000000).
C2_RangesPartition ==
  /\ fn = "parallelWorkers" =>
       /\ \A k \in 1..Len(dispatched) :
            /\ 0 <= dispatched[k].start
            /\ dispatched[k].start < dispatched[k].end
            /\ dispatched[k].start < arg
            /\ dispatched[k].end <= arg
       /\ \A k \in 1..(Len(dispatched) - 1) : dispatched[k].end = dispatched[k + 1].start
       /\ \A x \in 0..(arg - 1) :
            Cardinality({k \in 1..Len(dispatched) :
                           dispatched[k].start <= x /\ x < dispatched[k].end}) = 1
       /\ arg = 0 <=> dispatched = <<>>
       /\ Len(dispatched) <= cpus
  /\ Ranges(1000000, 4) = << [start |-> 0, end |-> 250000],
                             [start |-> 250000, end |-> 500000],
                             [start |-> 500000, end |-> 750000],
                             [start |-> 750000, end |-> 1000000] >>

\* parallelWorkers split an N that its chunk size does not divide among several workers.
C2_Witness ==
  /\ fn = "parallelWorkers"
  /\ Len(dispatched) >= 3
  /\ RangeLen(dispatched[Len(dispatched)]) < RangeLen(dispatched[1])

\* C3 as stated: the lengths of the dispatched ranges differ from one another by
\* at most 1, and each differs from N / P by at most 1 (|len * P - N| <= P).
C3_LengthsWithinOne ==
  fn = "parallelWorkers" =>
    /\ \A j, k \in 1..Len(dispatched) :
         RangeLen(dispatched[j]) - RangeLen(dispatched[k]) <= 1
    /\ \A k \in 1..Len(dispatched) :
         /\ RangeLen(dispatched[k]) * cpus - arg <= cpus
         /\ arg - RangeLen(dispatched[k]) * cpus <= cpus

\* C3 amended: every dispatched range but the last has length ceil(N / P), which
\* exceeds N / P by less than 1; the last has a length from 1 to ceil(N / P).
C3_AllButLastAreCeil ==
  fn = "parallelWorkers" =>
    LET c == CeilDiv(arg, cpus)
    IN  /\ c * cpus - arg < cpus
        /\ \A k \in 1..Len(dispatched) :
             IF k < Len(dispatched)
             THEN RangeLen(dispatched[k]) = c
             ELSE 1 <= RangeLen(dispatched[k]) /\ RangeLen(dispatched[k]) <= c

\* The last range is shorter than the others by more than 1.
C3_Witness ==
  /\ fn = "parallelWorkers"
  /\ Len(dispatched) >= 2
  /\ RangeLen(dispatched[1]) - RangeLen(dispatched[Len(dispatched)]) > 1
\* ----------------------------------------------------------- claims of the suite

WorkerFailureMessages == {WorkerErrorMessage, WorkerExitMessage, WorkerTimeoutMessage}

\* The record of a failed parallel strategy: the error text of a worker failure,
\* time Infinity and the placeholder 0, which is no sum of worker results.
IsWorkerFailureRecord(r) ==
  /\ r.error.set
  /\ r.error.msg \in WorkerFailureMessages
  /\ r.time = Infinity
  /\ r.result = Zero

\* C4: once a worker of a parallelWorkers invocation has reported a failure, in a
\* warmup or in a measured run, runBenchmark runs no further round, and the
\* BenchmarkResult it returns carries the error text and the placeholder 0, never
\* a sum of the results of the workers that succeeded.
C4_WorkerFailureFailsResult ==
  workerFailed =>
    /\ pc # "loop"
    /\ pc = "await" => outcome.st = "rejected"
    /\ pc = "returned" => IsWorkerFailureRecord(returned)
    /\ pc \in {"pause", "main", "format", "done"} =>
         IsWorkerFailureRecord(results[Len(results)])

\* A worker failed in a measured run that followed a successful one, while another
\* worker of the invocation was still computing.
C4_Witness ==
  /\ pc = "returned"
  /\ workerFailed
  /\ finalResult # Zero
  /\ orphans > 0

\* What strategy i returns for n when nothing fails.
ExpectedValue(i, n) ==
  IF benchmarks[i].kind = "parallel"
  THEN SumOf("number", Ranges(n, cpus))
  ELSE SumOf("number", <<Range(0, n)>>)

\* C5: whichever strategies throw or reject, in a warmup or a measured run, the
\* suite loop runs every strategy and ends with one BenchmarkResult per strategy,
\* in list order; the result of a strategy that threw has the error text and time
\* Infinity, that of a strategy that did not is the record of its success.
C5_SuiteSurvivesThrows ==
  /\ Len(results) = (IF pc \in {"idle", "format", "done"} THEN Len(benchmarks)
                     ELSE IF pc = "pause" THEN bi ELSE bi - 1)
  /\ \A i \in DOMAIN results :
       /\ results[i].name = benchmarks[i].name
       /\ i \in threw =>
            /\ results[i].error.set
            /\ results[i].time = Infinity
       /\ i \notin threw =>
            /\ results[i].error = Undefined
            /\ ~results[i].time.inf
            /\ results[i].time.den = 5
            /\ results[i].result = ExpectedValue(i, testSize)

\* The first strategy threw, a later one ran and succeeded.
C5_Witness ==
  /\ pc = "format"
  /\ Len(results) >= 2
  /\ 1 \in threw
  /\ \E i \in 2..Len(results) : i \notin threw

\* C9: at most one strategy invocation is in progress, it is an invocation of the
\* benchmark main's loop is at, and main has paused once after each earlier
\* benchmark: every invocation of benchmark k has settled, and the pause has been
\* made, before the first invocation of benchmark k + 1 begins.
C9_Sequential ==
  /\ Cardinality(active) <= 1
  /\ \A inv \in active :
       /\ pc = "await"
       /\ inv = CurrentInvocation
       /\ cooled = inv.b - 1
       /\ Len(results) = inv.b - 1
  /\ pc = "pause" => active = {}

\* An invocation of the second benchmark is in progress.
C9_Witness == \E inv \in active : inv.b = 2 /\ cooled = 1

\* The invocations of a runBenchmark call in which the strategy never throws.
ExpectedCalls ==
  LET hundredth == testSize \div 100
      w == IF hundredth < 1000000 THEN hundredth ELSE 1000000
      warm == IF isDevelopment THEN <<>> ELSE [k \in 1..3 |-> [phase |-> "warmup", size |-> w]]
  IN  warm \o [k \in 1..5 |-> [phase |-> "measure", size |-> testSize]]

\* C10: the invocations of a runBenchmark call are, in order, 3 warmups with size
\* min(N / 100, 1,000,000) (none in development mode) and then 5 measured runs with
\* size N, each begun after the one before has settled; the call that returns a
\* success has made all of them, and the result it stores is the value of a run
\* with the full size N, not of a warmup.
C10_WarmupThenMeasure ==
  /\ pc \in {"loop", "await", "returned"} =>
       /\ Len(calls) <= Len(ExpectedCalls)
       /\ calls = SubSeq(ExpectedCalls, 1, Len(calls))
       /\ \A inv \in active : calls[Len(calls)].phase = inv.phase
  /\ pc = "returned" /\ ~returned.error.set =>
       /\ calls = ExpectedCalls
       /\ returned.result = ExpectedValue(bi, testSize)
       /\ returned.result # ExpectedValue(bi, testSize \div 100)
       /\ returned.result # ExpectedValue(bi, 1000000)

\* A call outside development mode returned a success.
C10_Witness ==
  /\ pc = "returned"
  /\ ~returned.error.set
  /\ ~isDevelopment
  /\ Len(calls) = 8

\* ------------------------------------------------------ claims of formatResults

\* The succeeded results: the records of runBenchmark's success path, which have
\* no error field; a record of its error path is a failed result.
Succeeded(rs) == SelectSeq(rs, LAMBDA r : ~r.error.set)

\* C6: with at least one succeeded result, formatResults reports pass if and only
\* if all succeeded results have the same decimal string, a number and a bigint
\* of equal value counting as equal, and reports failure if and only if two
\* succeeded results differ; the values of failed results play no part.
C6_VerificationIffAgree ==
  pc = "done" /\ Len(Succeeded(results)) >= 1 =>
    LET ok == Succeeded(results)
        agree == \A j, k \in DOMAIN ok :
                   NumericValue(ok[j].result) = NumericValue(ok[k].result)
    IN  /\ verification = "pass" <=> agree
        /\ verification = "fail" <=> ~agree

\* a.time <= b.time
TimeLeq(a, b) == b.inf \/ (~a.inf /\ a.num * b.den <= b.num * a.den)

\* C7: with at least one succeeded result, the ranking holds exactly the
\* succeeded results, in ascending order of mean time; the speedup of each row
\* is fastest.time / result.time, which is 1.0 for the first row and at most 1.0
\* for every other row.
C7_RankingAscendingSpeedupAtMostOne ==
  pc = "done" /\ Len(Succeeded(results)) >= 1 =>
    LET ok == Succeeded(results)
    IN  /\ Len(ranking) = Len(ok)
        /\ {ranking[k].name : k \in DOMAIN ranking} = {ok[k].name : k \in DOMAIN ok}
        /\ \A k \in DOMAIN ranking :
             \E j \in DOMAIN results :
               /\ results[j].name = ranking[k].name
               /\ results[j].time = ranking[k].time
               /\ results[j].result = ranking[k].result
        /\ \A j, k \in DOMAIN ranking : j < k => TimeLeq(ranking[j].time, ranking[k].time)
        /\ ~ranking[1].speedup.nan
        /\ ranking[1].speedup.num = ranking[1].speedup.den
        /\ \A k \in DOMAIN ranking :
             /\ ~ranking[k].speedup.nan
             /\ ranking[k].speedup.num <= ranking[k].speedup.den
             /\ ranking[k].speedup.num * ranking[k].time.num * ranking[1].time.den
                  = ranking[k].speedup.den * ranking[1].time.num * ranking[k].time.den

\* The results as C8 gives them: three successes with mean times 50, 10 and 100 ms.
C8_Given ==
  /\ pc = "done"
  /\ Len(results) = 3
  /\ \A k \in 1..3 : results[k].error = Undefined
  /\ results[1].time = Finite(50, 1)
  /\ results[2].time = Finite(10, 1)
  /\ results[3].time = Finite(100, 1)

C8_RankedByTime ==
  /\ Len(ranking) = 3
  /\ ranking[1].time = Finite(10, 1) /\ ranking[1].name = results[2].name
  /\ ranking[2].time = Finite(50, 1) /\ ranking[2].name = results[1].name
  /\ ranking[3].time = Finite(100, 1) /\ ranking[3].name = results[3].name

\* C8 as stated: times [50, 10, 100] are ranked [10, 50, 100] with speedups
\* 1.00x, 5.00x and 10.00x.
C8_SpeedupsFiveAndTen ==
  C8_Given =>
    /\ C8_RankedByTime
    /\ [k \in 1..3 |-> ranking[k].speedupStr] =
         << [nan |-> FALSE, hundredths |-> 100], [nan |-> FALSE, hundredths |-> 500],
            [nan |-> FALSE, hundredths |-> 1000] >>

\* C8 amended: times [50, 10, 100] are ranked [10, 50, 100] with speedups
\* 1.00x, 0.20x and 0.10x.
C8_SpeedupsFifthAndTenth ==
  C8_Given =>
    /\ C8_RankedByTime
    /\ [k \in 1..3 |-> ranking[k].speedupStr] =
         << [nan |-> FALSE, hundredths |-> 100], [nan |-> FALSE, hundredths |-> 20],
            [nan |-> FALSE, hundredths |-> 10] >>

C8_Witness == C8_Given /\ Len(ranking) = 3
\* ------------------------------------------ claims of the parallelWorkers invocation

\* Worker k has finished with success: its message was handled and its promise
\* fulfilled with its result.
Succeeds(k) == pool[k].promise = "resolved" /\ pool[k].thread \in {"delivered", "exited"}

\* C11: under every interleaving of the worker events, the reduce over the results
\* of parallelWorkers has run only if every dispatched worker has finished, each
\* with its result handled; once a worker has failed the reduce never runs.
C11_ReduceAfterAllWorkers ==
  reduceRan =>
    /\ Len(pool) = Len(dispatched)
    /\ \A k \in DOMAIN pool : Succeeds(k)
    /\ firstFailure = NoFailure
    /\ outcome.st = "fulfilled"

\* The reduce ran after two or more workers delivered out of range order.
C11_Witness ==
  /\ reduceRan
  /\ Len(pool) >= 2
  /\ completion[1] # 1
\* C12: a worker whose timer fired had no message, error or exit handled before:
\* it is terminated, its promise is rejected with "Worker timeout", and the
\* invocation has failed with the text of a worker failure, no sum of the results
\* of the workers that finished being returned.  Conversely the timer of a worker
\* whose result was handled first never fires: it stays cleared, the worker is not
\* terminated and its promise stays fulfilled.
C12_TimeoutFailsInvocation ==
  \A k \in DOMAIN pool :
    /\ pool[k].timer = "fired" =>
         /\ pool[k].thread # "computing"
         /\ pool[k].promise = "rejected"
         /\ pool[k].reason = WorkerTimeoutMessage
         /\ outcome.st = "rejected"
         /\ IsWorkerFailureRecord(returned)
         /\ ~reduceRan
         /\ finalResult = Zero
         /\ ret = NoValue
    /\ pool[k].promise = "resolved" =>
         /\ pool[k].timer = "cleared"
         /\ pool[k].thread \in {"delivered", "exited"}

\* A worker timed out after another had delivered its result.
C12_Witness ==
  \E k, j \in DOMAIN pool :
    /\ pool[k].timer = "fired"
    /\ firstFailure = [k |-> k, text |-> WorkerTimeoutMessage]
    /\ pool[j].promise = "resolved"
\* C13: once a failure event of a worker has been handled, whichever its cause
\* (error, timeout, exit with a code other than 0), the invocation is rejected and
\* runBenchmark has returned one failed record whose error text is that of this
\* first event; the later events of the same worker (the exit that follows an
\* error or terminate()) and the failures of other workers change neither the
\* reason of its promise nor the record.
C13_FirstCausePreserved ==
  firstFailure # NoFailure =>
    /\ firstFailure.text \in WorkerFailureMessages
    /\ pool[firstFailure.k].promise = "rejected"
    /\ pool[firstFailure.k].reason = firstFailure.text
    /\ outcome = Rejected(firstFailure.text)
    /\ returned = [name |-> ParallelStrategy.name, time |-> Infinity, result |-> Zero,
                   error |-> ErrorText(firstFailure.text)]
    /\ ~reduceRan

\* A worker timed out and its exit with code 1 was handled, and another worker
\* failed later with an error.
C13_Witness ==
  \E k, j \in DOMAIN pool :
    /\ firstFailure = [k |-> k, text |-> WorkerTimeoutMessage]
    /\ pool[k].thread = "exited"
    /\ pool[j].promise = "rejected"
    /\ pool[j].reason = WorkerErrorMessage
\* ------------------------------------------------- claims of the registered suite

\* C14: when no entry of main's benchmark list fails, every result, that of the
\* 'Realistic Stress Test' included, has the value N * (N - 1) / 2 for the test
\* size N, and formatResults reports that verification passed.
C14_RegisteredSuiteVerifies ==
  pc = "done" /\ threw = {} =>
    /\ Len(results) = Len(benchmarks)
    /\ \A i \in DOMAIN results : NumericValue(results[i].result) = SumBelow(testSize)
    /\ verification = "pass"
\* ------------------------------------------------ claims of the failed records

\* C15: after a suite run, every record runBenchmark returned from its catch
\* block, whatever was thrown, an Error with the empty message included, is
\* listed as failed and not ranked, so that no ranked row has time Infinity, and
\* its placeholder 0 is not among the values verified: the successes of a run
\* agree, and verification passes whenever there is one.
C15_ErrorPathClassifiedFailed ==
  pc = "done" =>
    /\ Len(ranking) = Len(results) - Cardinality(threw)
    /\ \A j \in DOMAIN ranking : ~ranking[j].time.inf
    /\ Len(ranking) > 0 => Len(failedList) = Cardinality(threw)
    /\ Len(ranking) > 0 => verification = "pass"
    /\ Len(ranking) = 0 => verification = "none"
\* C16: for given N and P the value parallelWorkers returns is the same under
\* every interleaving of the worker events: the results are combined in the
\* order of range start, whatever the order the messages were handled in, and
\* the value is N * (N - 1) / 2.
C16_ValueIndependentOfOrder ==
  outcome.st = "fulfilled" /\ fn = "parallelWorkers" =>
    /\ outcome.value = SumOf("number", Ranges(arg, cpus))
    /\ \A j, k \in DOMAIN outcome.value.parts :
         j < k => outcome.value.parts[j].start < outcome.value.parts[k].start
    /\ finalResult = outcome.value
    /\ ret = Number(ClosedForm(arg))

\* The invocation returned after the worker of the first range delivered last.
C16_Witness ==
  /\ outcome.st = "fulfilled"
  /\ Len(completion) >= 2
  /\ completion[Len(completion)] = 1
\* C17: no worker outlives the invocation that created it: while runBenchmark
\* runs a strategy, no worker of an earlier invocation, which has failed, is
\* still computing.
C17_NoWorkerOutlivesInvocation == pc \in {"loop", "await"} => orphans = 0
\* C18: every parallelWorkers invocation eventually settles, and every promise
\* createWorker returned is eventually resolved or rejected, whatever the
\* sequence of worker events, an exit with code 0 before any message included.
C18_EveryPromiseSettles ==
  fn = "parallelWorkers" ~>
    /\ outcome.st \in {"fulfilled", "rejected"}
    /\ \A k \in DOMAIN pool : pool[k].promise \in {"resolved", "rejected"}
====
